---------------------------- MODULE Spec2Model ----------------------------
(***************************************************************************)
(* Model of generate-gorm-models (src/main.go): main resolves its          *)
(* configuration from flags and environment variables, validates it, opens *)
(* a database connection and calls generateModel for every requested       *)
(* table, which introspects the table's columns, maps their database types *)
(* to Go types, derives the identifiers and renders one file.              *)
(*                                                                         *)
(* Go strings are modelled as sequences of one-character strings, so that  *)
(* strings.Split, strings.Join, strings.Contains and strings.Title compute *)
(* what the library computes.  The Go type names written into the template *)
(* ("int", "time.Time", ...) are never inspected by the program and are    *)
(* kept as atoms.                                                          *)
(***************************************************************************)
EXTENDS Integers, Sequences, FiniteSets, TLC

----------------------------------------------------------------------------
(* Go strings *)

Empty == <<>>

LowerLetters ==
    << "a","b","c","d","e","f","g","h","i","j","k","l","m",
       "n","o","p","q","r","s","t","u","v","w","x","y","z" >>

UpperLetters ==
    << "A","B","C","D","E","F","G","H","I","J","K","L","M",
       "N","O","P","Q","R","S","T","U","V","W","X","Y","Z" >>

Digits == { "0","1","2","3","4","5","6","7","8","9" }

Range(f) == { f[i] : i \in DOMAIN f }

IndexOf(c, letters) == CHOOSE i \in DOMAIN letters : letters[i] = c

\* unicode.ToTitle on the ASCII range: a lower-case letter becomes its
\* capital, every other character is unchanged.
ToTitle(c) ==
    IF c \in Range(LowerLetters) THEN UpperLetters[IndexOf(c, LowerLetters)] ELSE c

\* strings.isSeparator: ASCII letters, digits and underscore are not
\* separators, every other ASCII character is.
isSeparator(c) ==
    ~ (c \in Range(LowerLetters) \/ c \in Range(UpperLetters) \/ c \in Digits \/ c = "_")

\* strings.Title: the characters that begin a word (the first one, and every
\* one that follows a separator) mapped to title case.
RECURSIVE TitleFrom(_, _)
TitleFrom(prev, s) ==
    IF s = Empty THEN Empty
    ELSE << (IF isSeparator(prev) THEN ToTitle(Head(s)) ELSE Head(s)) >>
            \o TitleFrom(Head(s), Tail(s))

TitleAll(s) == [i \in DOMAIN s |-> ToTitle(s[i])]

Title(s) == TitleFrom(" ", s)

\* strings.Split(s, sep) for a one-character separator: the pieces between
\* the separators; a string without separator (the empty one too) is one piece.
RECURSIVE SplitFrom(_, _, _)
SplitFrom(s, sep, cur) ==
    IF s = Empty THEN << cur >>
    ELSE IF Head(s) = sep THEN << cur >> \o SplitFrom(Tail(s), sep, Empty)
    ELSE SplitFrom(Tail(s), sep, Append(cur, Head(s)))

Split(s, sep) == SplitFrom(s, sep, Empty)

\* strings.Join(parts, sep), sep a string.
RECURSIVE Join(_, _)
Join(parts, sep) ==
    IF parts = << >> THEN Empty
    ELSE IF Len(parts) = 1 THEN parts[1]
    ELSE parts[1] \o sep \o Join(Tail(parts), sep)

\* strings.Contains(s, substr).
Contains(s, substr) ==
    \E i \in 0 .. (Len(s) - Len(substr)) :
        SubSeq(s, i + 1, i + Len(substr)) = substr

HasSuffix(s, suffix) ==
    /\ Len(s) >= Len(suffix)
    /\ SubSeq(s, Len(s) - Len(suffix) + 1, Len(s)) = suffix

----------------------------------------------------------------------------
(* camelCase and the singular form of a table name *)

camelCaseJoinUnderscore(s) ==
    Join([i \in DOMAIN Split(s, "_") |-> Title(Split(s, "_")[i])], <<"_">>)

\* camelCase: split on "_", strings.Title on every part, join without separator.
camelCase(s) ==
    LET parts == Split(s, "_")
    IN  Join([i \in DOMAIN parts |-> Title(parts[i])], Empty)

\* inflection.Singular (github.com/jinzhu/inflection) on the names of this
\* model, which are users, user, ghost and the names over NameAlphabet.  Of
\* the library's rules only "(ss)$" (the name is unchanged) and, after it,
\* "s$" (the final s is removed) can match such a name, both in either case;
\* a name no rule matches is returned as it is.
Singular(str) ==
    IF HasSuffix(TitleAll(str), <<"S","S">>) THEN str
    ELSE IF HasSuffix(TitleAll(str), <<"S">>) THEN SubSeq(str, 1, Len(str) - 1)
    ELSE str

----------------------------------------------------------------------------
(* The database type names of the switch in generateModel *)

TimeNames ==
    { <<"d","a","t","e","t","i","m","e">>,
      <<"t","i","m","e","s","t","a","m","p">>,
      <<"d","a","t","e">>,
      <<"t","i","m","e">> }

IntNames ==
    { <<"t","i","n","y","i","n","t">>,
      <<"s","m","a","l","l","i","n","t">>,
      <<"m","e","d","i","u","m","i","n","t">>,
      <<"i","n","t">>,
      <<"i","n","t","e","g","e","r">>,
      <<"b","i","g","i","n","t">> }

FloatNames ==
    { <<"f","l","o","a","t">>,
      <<"d","o","u","b","l","e">>,
      <<"r","e","a","l">> }

DecimalNames ==
    { <<"d","e","c","i","m","a","l">>,
      <<"n","u","m","e","r","i","c">> }

TextNames ==
    { <<"c","h","a","r">>,
      <<"v","a","r","c","h","a","r">>,
      <<"t","i","n","y","t","e","x","t">>,
      <<"t","e","x","t">>,
      <<"m","e","d","i","u","m","t","e","x","t">>,
      <<"l","o","n","g","t","e","x","t">> }

BlobNames ==
    { <<"b","i","n","a","r","y">>,
      <<"v","a","r","b","i","n","a","r","y">>,
      <<"t","i","n","y","b","l","o","b">>,
      <<"b","l","o","b">>,
      <<"m","e","d","i","u","m","b","l","o","b">>,
      <<"l","o","n","g","b","l","o","b">> }

BitNames == { <<"b","i","t">> }

BoolNames ==
    { <<"b","o","o","l">>,
      <<"b","o","o","l","e","a","n">> }

JsonNames == { <<"j","s","o","n">> }

EnumNames ==
    { <<"e","n","u","m">>,
      <<"s","e","t">> }

\* The import paths the switch appends.
ImportTime == <<"t","i","m","e">>
ImportJson == <<"e","n","c","o","d","i","n","g","/","j","s","o","n">>

\* The switch on columnType.DatabaseTypeName(): the Go type of the field.
\* The case labels are compared with the reported name as it is.
ModelColumnType(dbType) ==
    IF dbType \in TimeNames THEN "time.Time"
    ELSE IF dbType \in IntNames THEN "int"
    ELSE IF dbType \in FloatNames THEN "float64"
    ELSE IF dbType \in DecimalNames THEN "string"
    ELSE IF dbType \in TextNames THEN "string"
    ELSE IF dbType \in BlobNames THEN "[]byte"
    ELSE IF dbType \in BitNames THEN "[]uint8"
    ELSE IF dbType \in BoolNames THEN "bool"
    ELSE IF dbType \in JsonNames THEN "json.RawMessage"
    ELSE IF dbType \in EnumNames THEN "string"
    ELSE "string"

AddImportAlways(modelImports, path) == Append(modelImports, path)

\* if !strings.Contains(strings.Join(modelImports, ","), path) { append }
AddImport(modelImports, path) ==
    IF ~ Contains(Join(modelImports, <<",">>), path)
    THEN Append(modelImports, path)
    ELSE modelImports

\* The switch on columnType.DatabaseTypeName(): the import list after the column.
ModelImportsAfter(modelImports, dbType) ==
    IF dbType \in TimeNames THEN AddImport(modelImports, ImportTime)
    ELSE IF dbType \in JsonNames THEN AddImport(modelImports, ImportJson)
    ELSE modelImports

\* Column{Name: camelCase(columnType.Name()), Type: modelColumnType,
\*        GormName: columnType.Name()}
NewColumn(columnType) ==
    [ Name     |-> camelCase(columnType.name),
      Type     |-> ModelColumnType(columnType.dbtype),
      GormName |-> columnType.name ]

\* Table{TableName: camelCase(inflection.Singular(tableName)), ...}
NewTable(tableName, cols, imports) ==
    [ TableName    |-> camelCase(Singular(tableName)),
      Columns      |-> cols,
      DBTableName  |-> tableName,
      ModelImports |-> imports ]

\* The -dest flag, at its default ".".
DestPath == <<".">>

\* fmt.Sprintf("%s/%s.go", destPath, table.TableName)
FileName(destPath, typeName) == destPath \o <<"/">> \o typeName \o <<".","g","o">>

\* What executing modelTemplate on a table writes: the package clause, the
\* import block (only when there are imports), the struct with one tagged
\* field per column, and the TableName method.
Render(t) ==
    [ package  |-> "models",
      imports  |-> t.ModelImports,
      struct   |-> t.TableName,
      fields   |-> [i \in DOMAIN t.Columns |->
                       [ name |-> t.Columns[i].Name,
                         type |-> t.Columns[i].Type,
                         tag  |-> <<"c","o","l","u","m","n",":">> \o t.Columns[i].GormName ]],
      receiver |-> t.TableName,
      returns  |-> t.DBTableName ]

\* A file os.Create has just created or truncated.
EmptyFile == [ package |-> "" ]

\* A file the template stopped writing to part way.
PartialFile(t) == [ package |-> "models", imports |-> t.ModelImports ]

----------------------------------------------------------------------------
(* Bounds and the inputs drawn from them *)

\* The longest comma-separated table list given to -tables.
MaxTables == 2

\* The most columns of an introspected table of the generateModel runs.
MaxCols == 5

\* The longest table or column name of the generateModel runs.
MaxLen == 3

Settings == { "dbuser", "dbpassword", "dbhost", "dbport", "dbname", "tables" }

\* The environment variable main reads when the flag is empty.
EnvName(k) ==
    CASE k = "dbuser"     -> "DB_USER"
      [] k = "dbpassword" -> "DB_PASSWORD"
      [] k = "dbhost"     -> "DB_HOST"
      [] k = "dbport"     -> "DB_PORT"
      [] k = "dbname"     -> "DB_NAME"
      [] k = "tables"     -> "TABLES"

EnvNames == { EnvName(k) : k \in Settings }

Users == <<"u","s","e","r","s">>
User  == <<"u","s","e","r">>
Ghost == <<"g","h","o","s","t">>

\* The names a -tables list is made of: two tables of the database and one
\* that does not exist.
TableNamePool == { Users, User, Ghost }

SeqsUpTo(S, n) == UNION { [1 .. k -> S] : k \in 1 .. n }

TableLists == SeqsUpTo(TableNamePool, MaxTables)

TableStrings == { Join(l, <<",">>) : l \in TableLists }

\* The values a flag may have: not given (the default "") or given.
FlagValues(k) == IF k = "tables" THEN {Empty} \cup TableStrings ELSE { Empty, <<"f">> }

\* The value of an environment variable that is set.
EnvValue(n) == IF n = "TABLES" THEN User ELSE <<"e">>

\* Sets of environment variables that are set.
EnvSubsets ==
    { {}, EnvNames, { "DB_USER", "DB_HOST", "DB_NAME" }, { "DB_PASSWORD", "DB_PORT", "TABLES" } }

\* The process environments main may start in: the variables of one of
\* EnvSubsets set to their values, or all of them set with DB_PASSWORD set
\* to the empty string.
Environments ==
    { [ n \in S |-> EnvValue(n) ] : S \in EnvSubsets }
        \cup { [ n \in EnvNames |-> IF n = "DB_PASSWORD" THEN Empty ELSE EnvValue(n) ] }

\* The key/value pairs of the file -env names, when it is a valid file.
DotEnv == [ n \in { "DB_PASSWORD", "TABLES" } |->
              IF n = "TABLES" THEN Users ELSE <<"d">> ]

\* The database: the column types Migrator().ColumnTypes reports per table.
Catalog ==
    (Users :> << [ name |-> <<"i","d">>, dbtype |-> <<"i","n","t">> ],
                 [ name |-> <<"e","m","a","i","l">>, dbtype |-> <<"v","a","r","c","h","a","r">> ],
                 [ name |-> <<"c","r","e","a","t","e","d","_","a","t">>,
                   dbtype |-> <<"d","a","t","e","t","i","m","e">> ] >>)
    @@
    (User  :> << [ name |-> <<"i","d">>, dbtype |-> <<"i","n","t">> ],
                 [ name |-> <<"d","a","t","a">>, dbtype |-> <<"j","s","o","n">> ] >>)

----------------------------------------------------------------------------
(* State *)

VARIABLES
    pc,            \* where the process is
    args,          \* the flag values as parsed from the command line
    cfg,           \* *dbUser, *dbPassword, *dbHost, *dbPort, *dbName, *tables
    env,           \* the process environment: variable name -> value
    envFile,       \* the file -env names: "absent", "valid" or "invalid"
    tableNames,    \* strings.Split(*tables, ",")
    idx,           \* the position in tableNames of the table being generated
    columnTypes,   \* generateModel: the introspected column types
    ci,            \* generateModel: the position of the range loop
    columns,       \* generateModel: columns
    modelImports,  \* generateModel: modelImports
    table,         \* generateModel: table
    file,          \* generateModel: the name of the open file, or Empty
    files,         \* the files on disk: name -> content
    events         \* history: the operations performed, in order

vars == << pc, args, cfg, env, envFile, tableNames, idx, columnTypes, ci,
           columns, modelImports, table, file, files, events >>

config == << args, cfg, env, envFile >>
locals == << columnTypes, ci, columns, modelImports, table >>

ZeroTable == NewTable(Empty, << >>, << >>)

NoFiles == [ n \in {} |-> EmptyFile ]

Event(op, i, ok) == [ op |-> op, i |-> i, ok |-> ok ]

\* os.Getenv: the value, "" when the variable is not set.
Getenv(e, n) == IF n \in DOMAIN e THEN e[n] ELSE Empty

\* godotenv.Load: the file's pairs are set, except those of variables the
\* environment already has.
Load(e, dotenv) ==
    [ n \in (DOMAIN e) \cup (DOMAIN dotenv) |-> IF n \in DOMAIN e THEN e[n] ELSE dotenv[n] ]

Init ==
    /\ pc = "loadenv"
    /\ args \in [ dbuser : FlagValues("dbuser"), dbpassword : FlagValues("dbpassword"),
                  dbhost : FlagValues("dbhost"), dbport : FlagValues("dbport"),
                  dbname : FlagValues("dbname"), tables : FlagValues("tables") ]
    /\ cfg = args
    /\ env \in Environments
    /\ envFile \in { "absent", "valid", "invalid" }
    /\ tableNames = << >>
    /\ idx = 0
    /\ columnTypes = << >>
    /\ ci = 0
    /\ columns = << >>
    /\ modelImports = << >>
    /\ table = ZeroTable
    /\ file = Empty
    /\ files = NoFiles
    /\ events = << >>

----------------------------------------------------------------------------
(* main *)

Fatal(op, i) ==
    /\ pc' = "fatal"
    /\ events' = Append(events, Event(op, i, FALSE))

\* os.Stat(*envFile) fails (no such file; the default -env ""): nothing is loaded.
LoadEnvSkip ==
    /\ pc = "loadenv"
    /\ envFile = "absent"
    /\ pc' = "resolve"
    /\ UNCHANGED << config, tableNames, idx, locals, file, files, events >>

\* The file exists and godotenv.Load reads it into the environment.
LoadEnvOk ==
    /\ pc = "loadenv"
    /\ envFile = "valid"
    /\ env' = Load(env, DotEnv)
    /\ pc' = "resolve"
    /\ events' = Append(events, Event("loadenv", 0, TRUE))
    /\ UNCHANGED << args, cfg, envFile, tableNames, idx, locals, file, files >>

\* The file exists and godotenv.Load fails: log.Fatalf.
LoadEnvFail ==
    /\ pc = "loadenv"
    /\ envFile = "invalid"
    /\ Fatal("loadenv", 0)
    /\ UNCHANGED << config, tableNames, idx, locals, file, files >>

ResolvedEnvFirst(c, e, k) == IF Getenv(e, EnvName(k)) # Empty THEN Getenv(e, EnvName(k)) ELSE c[k]

\* if *flag == "" { *flag = os.Getenv(NAME) }
Resolved(c, e, k) == IF c[k] = Empty THEN Getenv(e, EnvName(k)) ELSE c[k]

\* The six substitutions of lines 73-90.
Resolve ==
    /\ pc = "resolve"
    /\ cfg' = [ k \in Settings |-> Resolved(cfg, env, k) ]
    /\ pc' = "validate"
    /\ UNCHANGED << args, env, envFile, tableNames, idx, locals, file, files, events >>

MissingAny(c) ==
    c.dbuser = Empty \/ c.dbpassword = Empty \/ c.dbhost = Empty
        \/ c.dbport = Empty \/ c.dbname = Empty \/ c.tables = Empty

\* *dbUser == "" || *dbPassword == "" || *dbName == "" || *tables == ""
Missing(c) ==
    c.dbuser = Empty \/ c.dbpassword = Empty \/ c.dbname = Empty \/ c.tables = Empty

ValidateOk ==
    /\ pc = "validate"
    /\ ~ Missing(cfg)
    /\ pc' = "connect"
    /\ events' = Append(events, Event("validate", 0, TRUE))
    /\ UNCHANGED << config, tableNames, idx, locals, file, files >>

\* log.Fatal("Database user, password, name, and tables are required")
ValidateFail ==
    /\ pc = "validate"
    /\ Missing(cfg)
    /\ Fatal("validate", 0)
    /\ UNCHANGED << config, tableNames, idx, locals, file, files >>

\* gorm.Open succeeds; tableNames := strings.Split(*tables, ",") and the
\* range loop starts with the first name.
ConnectOk ==
    /\ pc = "connect"
    /\ tableNames' = Split(cfg.tables, ",")
    /\ idx' = 1
    /\ pc' = "introspect"
    /\ events' = Append(events, Event("connect", 0, TRUE))
    /\ UNCHANGED << config, locals, file, files >>

\* gorm.Open fails: log.Fatalf.
ConnectFail ==
    /\ pc = "connect"
    /\ Fatal("connect", 0)
    /\ UNCHANGED << config, tableNames, idx, locals, file, files >>

----------------------------------------------------------------------------
(* generateModel(db, tableNames[idx], destPath) *)

\* db.Migrator().ColumnTypes(tableName) returns the table's column types.
IntrospectOk ==
    /\ pc = "introspect"
    /\ tableNames[idx] \in DOMAIN Catalog
    /\ columnTypes' = Catalog[tableNames[idx]]
    /\ columns' = << >>
    /\ modelImports' = << >>
    /\ ci' = 1
    /\ pc' = "map"
    /\ events' = Append(events, Event("introspect", idx, TRUE))
    /\ UNCHANGED << config, tableNames, idx, table, file, files >>

IntrospectFailContinue ==
    /\ pc = "introspect"
    /\ events' = Append(events, Event("introspect", idx, FALSE))
    /\ pc' = IF idx < Len(tableNames) THEN "introspect" ELSE "done"
    /\ idx' = idx + 1
    /\ UNCHANGED << config, tableNames, locals, file, files >>

\* ColumnTypes returns an error (no such table, or the query failed): log.Fatalf.
IntrospectFail ==
    /\ pc = "introspect"
    /\ Fatal("introspect", idx)
    /\ UNCHANGED << config, tableNames, idx, locals, file, files >>

\* One iteration of the range loop over columnTypes.
MapColumn ==
    /\ pc = "map"
    /\ ci <= Len(columnTypes)
    /\ modelImports' = ModelImportsAfter(modelImports, columnTypes[ci].dbtype)
    /\ columns' = Append(columns, NewColumn(columnTypes[ci]))
    /\ ci' = ci + 1
    /\ UNCHANGED << pc, config, tableNames, idx, columnTypes, table, file, files, events >>

\* The loop is over: the table name is singularized and the Table is built.
BuildTable ==
    /\ pc = "map"
    /\ ci > Len(columnTypes)
    /\ table' = NewTable(tableNames[idx], columns, modelImports)
    /\ pc' = "parse"
    /\ events' = Append(events, Event("map", idx, TRUE))
    /\ UNCHANGED << config, tableNames, idx, columnTypes, ci, columns, modelImports,
                    file, files >>

\* template.New("model").Parse(modelTemplate): the template is a constant of
\* the program and parses.
ParseTemplate ==
    /\ pc = "parse"
    /\ pc' = "create"
    /\ events' = Append(events, Event("parse", idx, TRUE))
    /\ UNCHANGED << config, tableNames, idx, locals, file, files >>

\* os.Create: the file is created, or truncated when it exists.
CreateOk ==
    /\ pc = "create"
    /\ file' = FileName(DestPath, table.TableName)
    /\ files' = (file' :> EmptyFile) @@ files
    /\ pc' = "execute"
    /\ events' = Append(events, Event("create", idx, TRUE))
    /\ UNCHANGED << config, tableNames, idx, locals >>

\* os.Create fails: log.Fatalf.
CreateFail ==
    /\ pc = "create"
    /\ Fatal("create", idx)
    /\ UNCHANGED << config, tableNames, idx, locals, file, files >>

\* tmpl.Execute(file, table) writes the model.
ExecuteOk ==
    /\ pc = "execute"
    /\ files' = [ files EXCEPT ![file] = Render(table) ]
    /\ pc' = "return"
    /\ events' = Append(events, Event("execute", idx, TRUE))
    /\ UNCHANGED << config, tableNames, idx, locals, file >>

\* tmpl.Execute fails part way: log.Fatalf (the deferred Close does not run).
ExecuteFail ==
    /\ pc = "execute"
    /\ files' = [ files EXCEPT ![file] = PartialFile(table) ]
    /\ Fatal("execute", idx)
    /\ UNCHANGED << config, tableNames, idx, locals, file >>

NextAfterReturnFirstOnly(i, n) == "done"

\* After the call for position i of n names: the next name, or main returns.
NextAfterReturn(i, n) == IF i < n THEN "introspect" ELSE "done"

ReturnLeak ==
    /\ pc = "return"
    /\ pc' = NextAfterReturn(idx, Len(tableNames))
    /\ idx' = idx + 1
    /\ UNCHANGED << config, tableNames, locals, file, files, events >>

\* generateModel returns: the deferred file.Close() runs, and the range loop
\* of main moves to the next table name or main returns (exit status 0).
Return ==
    /\ pc = "return"
    /\ file' = Empty
    /\ events' = Append(events, Event("close", idx, TRUE))
    /\ pc' = NextAfterReturn(idx, Len(tableNames))
    /\ idx' = idx + 1
    /\ UNCHANGED << config, tableNames, locals, files >>

Main ==
    \/ LoadEnvSkip \/ LoadEnvOk \/ LoadEnvFail
    \/ Resolve
    \/ ValidateOk \/ ValidateFail
    \/ ConnectOk \/ ConnectFail

GenerateModel ==
    \/ IntrospectOk \/ IntrospectFail
    \/ MapColumn \/ BuildTable
    \/ ParseTemplate
    \/ CreateOk \/ CreateFail
    \/ ExecuteOk \/ ExecuteFail
    \/ Return

Next == Main \/ GenerateModel

Spec == Init /\ [][Next]_vars

----------------------------------------------------------------------------
(* generateModel on its own, after an introspection that may have returned  *)
(* any column types                                                         *)

\* The characters of the table and column names tried: letters, a capital,
\* a digit, the underscore camelCase splits on, and a separator of
\* strings.Title.
NameAlphabet == { "a", "s", "B", "1", "_", "-" }

Names == SeqsUpTo(NameAlphabet, MaxLen)

\* The type names of the switch, and some it does not list.
ListedTypeNames ==
    TimeNames \cup IntNames \cup FloatNames \cup DecimalNames \cup TextNames
        \cup BlobNames \cup BitNames \cup BoolNames \cup JsonNames \cup EnumNames

UnlistedTypeNames ==
    { <<"g","e","o","m","e","t","r","y">>, <<"p","o","i","n","t">>, <<"y","e","a","r">> }

\* A type name as a database driver may spell it: lower case, upper case,
\* capitalized.
Spellings(T) == { T, TitleAll(T), Title(T) }

TypeSpellings == UNION { Spellings(T) : T \in ListedTypeNames \cup UnlistedTypeNames }

\* The type names of the tables with several columns.
SomeTypeNames ==
    { <<"d","a","t","e","t","i","m","e">>, <<"t","i","m","e","s","t","a","m","p">>,
      <<"j","s","o","n">>, <<"J","S","O","N">>, <<"i","n","t">> }

DigitChar(i) == CHOOSE d \in Digits : d = ToString(i)

\* Column names as schemas have them.
SampleColumnNames ==
    { <<"o","r","d","e","r","_","i","t","e","m","_","i","d">>,
      <<"c","r","e","a","t","e","d","_","a","t">>,
      <<"u","s","e","r","_","i","d">>,
      <<"e","m","a","i","l">> }

\* The column types an introspection may have returned: one column of any
\* type spelling; up to MaxCols columns c1, c2, ... of some types; one
\* column of any name.
OneColumnOfAnyType ==
    { << [ name |-> <<"i","d">>, dbtype |-> T ] >> : T \in TypeSpellings }

ColumnsOfSomeTypes ==
    { [ i \in DOMAIN ts |-> [ name |-> <<"c", DigitChar(i)>>, dbtype |-> ts[i] ] ] :
        ts \in SeqsUpTo(SomeTypeNames, MaxCols) }

OneColumnNamed(n) == << [ name |-> n, dbtype |-> <<"i","n","t">> ] >>

\* generateModel(db, tableName, destPath) after ColumnTypes returned cts.
InitGenWith(tableName, cts) ==
    /\ pc = "map"
    /\ args = [ k \in Settings |-> IF k = "tables" THEN tableName ELSE <<"f">> ]
    /\ cfg = args
    /\ env = [ n \in {} |-> Empty ]
    /\ envFile = "absent"
    /\ tableNames = << tableName >>
    /\ idx = 1
    /\ columnTypes = cts
    /\ ci = 1
    /\ columns = << >>
    /\ modelImports = << >>
    /\ table = ZeroTable
    /\ file = Empty
    /\ files = NoFiles
    /\ events = << Event("validate", 0, TRUE), Event("connect", 0, TRUE),
                   Event("introspect", 1, TRUE) >>

InitGen ==
    \/ \E cts \in OneColumnOfAnyType \cup ColumnsOfSomeTypes : InitGenWith(Users, cts)
    \/ \E n \in Names : InitGenWith(n, OneColumnNamed(n))
    \/ \E n \in SampleColumnNames : InitGenWith(Users, OneColumnNamed(n))

NextGen == MapColumn \/ BuildTable

SpecGen == InitGen /\ [][NextGen]_vars

----------------------------------------------------------------------------
(* Properties *)

HasEvent(op, i, ok) == \E j \in DOMAIN events : events[j] = Event(op, i, ok)

Failed == \E j \in DOMAIN events : ~ events[j].ok

\* The substitutions of lines 73-90 have been made.
Substituted == pc \notin { "loadenv", "resolve" } /\ ~ HasEvent("loadenv", 0, FALSE)

ToLower(c) ==
    IF c \in Range(UpperLetters) THEN LowerLetters[IndexOf(c, UpperLetters)] ELSE c

ToLowerAll(s) == [i \in DOMAIN s |-> ToLower(s[i])]

\* The documented mapping table, matched on the lower-cased type name.
DocumentedType(T) ==
    LET l == ToLowerAll(T)
    IN  CASE l \in TimeNames -> "time.Time"
          [] l \in IntNames -> "int"
          [] l \in FloatNames -> "float64"
          [] l \in DecimalNames \cup TextNames \cup EnumNames -> "string"
          [] l \in BlobNames -> "[]byte"
          [] l \in BitNames -> "[]uint8"
          [] l \in BoolNames -> "bool"
          [] l \in JsonNames -> "json.RawMessage"
          [] OTHER -> "string"

\* C1: every column whose reported type name is, in any upper/lower-case
\* spelling, a name of the documented table gets the documented Go type, and
\* a column of any other type name gets string.
C1_TypeMappingAnyCase ==
    \A i \in DOMAIN columns : columns[i].Type = DocumentedType(columnTypes[i].dbtype)

\* One of user, password, database name and tables is empty.
RequiredEmpty(c) ==
    \E k \in { "dbuser", "dbpassword", "dbname", "tables" } : c[k] = Empty

\* C2: when, after substitution, one of user, password, database name or
\* tables is empty, the process ends fatally at the validation and no
\* connection is ever attempted; when none of them is empty the validation
\* does not fail, whatever host and port are.
C2_ValidationBeforeConnection ==
    /\ (Substituted /\ RequiredEmpty(cfg)) =>
          /\ pc \in { "validate", "fatal" }
          /\ pc = "fatal" => events[Len(events)] = Event("validate", 0, FALSE)
          /\ ~ HasEvent("connect", 0, TRUE)
          /\ ~ HasEvent("connect", 0, FALSE)
    /\ (Substituted /\ ~ RequiredEmpty(cfg)) => ~ HasEvent("validate", 0, FALSE)

\* C2's case: tables is missing, the run has ended at the validation and no
\* connection was attempted, although user, password and name are there.
C2_Witness ==
    /\ pc = "fatal"
    /\ cfg.tables = Empty
    /\ cfg.dbuser # Empty /\ cfg.dbpassword # Empty /\ cfg.dbname # Empty
    /\ HasEvent("validate", 0, FALSE)

\* C3: each resolved setting is the flag's value when the flag is not empty
\* and the value of its environment variable when the flag is empty.
C3_FlagsBeforeEnvironment ==
    Substituted =>
        \A k \in Settings :
            /\ args[k] # Empty => cfg[k] = args[k]
            /\ args[k] = Empty => cfg[k] = Getenv(env, EnvName(k))

\* C3's case: a flag that is given while its variable is set to another
\* value, and a flag that is not given and whose variable is set.
C3_Witness ==
    /\ Substituted
    /\ args.dbuser # Empty
    /\ Getenv(env, "DB_USER") \notin { Empty, args.dbuser }
    /\ cfg.dbuser = args.dbuser
    /\ args.tables = Empty
    /\ cfg.tables = Getenv(env, "TABLES")
    /\ cfg.tables # Empty

\* The loop of main has not reached position i.
Untouched(i) == \A j \in DOMAIN events : events[j].i # i

\* C4: when the introspection of the table at position idx fails, that step
\* ends the process fatally and changes no file (none is created for the
\* table, those written before stay as they are), nothing was done before
\* for the table or for a later one, and a process that has ended fatally
\* takes no further step.
C4_MissingTableIsFatal ==
    [][ /\ pc # "fatal"
        /\ events' = Append(events, Event("introspect", idx, FALSE)) =>
              /\ pc' = "fatal"
              /\ files' = files
              /\ \A i \in idx .. Len(tableNames) : Untouched(i)
      ]_vars

\* C4's case: the second table is missing, after the first one's file was written.
C4_Witness ==
    /\ pc = "fatal"
    /\ events[Len(events)] = Event("introspect", 2, FALSE)
    /\ HasEvent("execute", 1, TRUE)
    /\ \E n \in DOMAIN files : files[n].package = "models" /\ files[n].returns = tableNames[1]

\* The number of names in a comma-separated list.
RECURSIVE Commas(_)
Commas(str) ==
    IF str = Empty THEN 0 ELSE (IF Head(str) = "," THEN 1 ELSE 0) + Commas(Tail(str))

\* C5: the process ends successfully only when every name of the requested
\* list was introspected and its file created and written, and once an
\* operation has failed the process has ended fatally.
C5_SuccessOnlyIfAllWritten ==
    /\ pc = "done" =>
          /\ ~ Failed
          /\ \A i \in 1 .. (Commas(cfg.tables) + 1) :
                /\ HasEvent("introspect", i, TRUE)
                /\ HasEvent("create", i, TRUE)
                /\ HasEvent("execute", i, TRUE)
    /\ Failed => pc = "fatal"

\* C5's case: a run of two tables that has ended successfully.
C5_Witness ==
    /\ pc = "done"
    /\ Commas(cfg.tables) = 1
    /\ HasEvent("execute", 2, TRUE)

Count(seq, x) == Cardinality({ i \in DOMAIN seq : seq[i] = x })

NeedsType(cols, goType) == \E j \in DOMAIN cols : cols[j].Type = goType

\* The import list holds "time" once when a column is a time.Time and
\* "encoding/json" once when a column is a json.RawMessage, and nothing else.
ImportsMatch(imports, cols) ==
    /\ Count(imports, ImportTime) = (IF NeedsType(cols, "time.Time") THEN 1 ELSE 0)
    /\ Count(imports, ImportJson) = (IF NeedsType(cols, "json.RawMessage") THEN 1 ELSE 0)
    /\ Len(imports) = Count(imports, ImportTime) + Count(imports, ImportJson)

\* C6: the import list holds each of "time" and "encoding/json" at most once,
\* and holds it exactly when a column has the type that needs it, after
\* every column of the loop and in the table that is built.
C6_ImportsDeduplicated ==
    /\ ImportsMatch(modelImports, columns)
    /\ pc = "parse" => ImportsMatch(table.ModelImports, table.Columns)

\* C6's case: three json columns and two datetime columns give two imports.
C6_Witness ==
    /\ pc = "parse"
    /\ Len(table.Columns) = 5
    /\ Cardinality({ j \in 1 .. 5 : columnTypes[j].dbtype = <<"j","s","o","n">> }) = 3
    /\ Cardinality({ j \in 1 .. 5 : columnTypes[j].dbtype = <<"d","a","t","e","t","i","m","e">> }) = 2
    /\ Len(table.ModelImports) = 2

\* C7: after a successful run every requested table has its own file
\* <dest>/<GeneratedTypeName>.go, whose TableName method returns that table's
\* database name.
C7_OneFilePerTable ==
    pc = "done" =>
        \A i \in DOMAIN tableNames :
            LET n == FileName(DestPath, camelCase(Singular(tableNames[i])))
            IN  /\ n \in DOMAIN files
                /\ files[n].package = "models"
                /\ files[n].returns = tableNames[i]

\* C8: the generated type name of a non-empty table name is not empty.
C8_TypeNameNotEmpty ==
    (pc = "parse" /\ table.DBTableName # Empty) => table.TableName # Empty

\* A snake_case name: lower-case letters, digits and underscores.
IsSnakeCase(str) ==
    /\ str # Empty
    /\ \A i \in DOMAIN str : str[i] \in Range(LowerLetters) \cup Digits \cup {"_"}

\* The underscores dropped and the first character of every segment in
\* upper case, read off the name character by character.
RECURSIVE PascalFrom(_, _)
PascalFrom(atStart, str) ==
    IF str = Empty THEN Empty
    ELSE IF Head(str) = "_" THEN PascalFrom(TRUE, Tail(str))
    ELSE << (IF atStart THEN ToTitle(Head(str)) ELSE Head(str)) >>
            \o PascalFrom(FALSE, Tail(str))

\* C9: the field name of a snake_case column name is its segments, each with
\* its first letter in upper case, concatenated; and camelCase leaves that
\* field name as it is.
C9_CamelCase ==
    \A i \in DOMAIN columns :
        IsSnakeCase(columns[i].GormName) =>
            /\ columns[i].Name = PascalFrom(TRUE, columns[i].GormName)
            /\ camelCase(columns[i].Name) = columns[i].Name

\* C9's case: order_item_id has become OrderItemId.
C9_Witness ==
    /\ Len(columns) = 1
    /\ columns[1].GormName = <<"o","r","d","e","r","_","i","t","e","m","_","i","d">>
    /\ columns[1].Name = <<"O","r","d","e","r","I","t","e","m","I","d">>

\* The steps of one table, in order.
Steps == << "introspect", "map", "parse", "create", "execute", "close" >>

\* The events of the loop of main: those after validation and connection.
LoopEvents ==
    LET first == CHOOSE j \in 1 .. Len(events) + 1 :
                     /\ j <= Len(events) => events[j].i > 0
                     /\ \A h \in 1 .. j - 1 : events[h].i = 0
    IN  SubSeq(events, first, Len(events))

\* C10: the steps performed for the tables are, in this order, the six steps
\* of the first name of the list, then the six of the second, and so on,
\* none of them twice and only the last one possibly a failure; no file is
\* open when an introspection starts; and the table being written is the one
\* at the current position of the comma-separated list.
C10_TablesInOrder ==
    /\ \A j \in DOMAIN LoopEvents :
          /\ LoopEvents[j].i = ((j - 1) \div Len(Steps)) + 1
          /\ LoopEvents[j].op = Steps[((j - 1) % Len(Steps)) + 1]
          /\ j < Len(LoopEvents) => LoopEvents[j].ok
    /\ pc = "introspect" =>
          /\ file = Empty
          /\ Len(LoopEvents) = (idx - 1) * Len(Steps)
    /\ pc \in { "create", "execute", "return" } =>
          table.DBTableName = Split(cfg.tables, ",")[(Len(LoopEvents) \div Len(Steps)) + 1]

\* C10's case: the second table is being introspected after the first one's
\* file was written and closed.
C10_Witness ==
    /\ pc = "map"
    /\ idx = 2
    /\ HasEvent("close", 1, TRUE)
    /\ HasEvent("introspect", 2, TRUE)
    /\ file = Empty

=============================================================================
